---- MODULE Spec2Model ----
(***************************************************************************)
(* Quill-Delta document processor of the post app (app/post/utils.py):     *)
(* validation of a submitted document, the create/update lifecycle of a    *)
(* post (validate, persist, rehost remote images, persist again) and the   *)
(* rehosting of remote images as PostFile attachments.  The model follows  *)
(* one post: its creation and the updates that follow.                     *)
(*                                                                         *)
(* JSON values are tagged records, so that values of different JSON types  *)
(* can be compared:                                                        *)
(*    string  [t |-> "str",  s |-> <<characters>>]                          *)
(*    integer [t |-> "int",  n |-> n]                                       *)
(*    null    [t |-> "null"]                                                *)
(*    boolean [t |-> "bool", b |-> b]                                       *)
(*    list    [t |-> "list", l |-> <<values>>]                              *)
(*    mapping [t |-> "dict", d |-> function from keys to values]            *)
(* A string is the sequence of its characters, so that str.startswith is   *)
(* computed on the characters.                                             *)
(***************************************************************************)
EXTENDS Integers, Sequences, FiniteSets, TLC

(***************************************************************************)
(* Bounds of the model.                                                    *)
(***************************************************************************)
\* longest delta a request submits
MaxOps == 2
\* number of PostFile records the database can hold
MaxFiles == 2

(***************************************************************************)
(* JSON values.                                                            *)
(***************************************************************************)
JStr(s) == [t |-> "str", s |-> s]
JInt(n) == [t |-> "int", n |-> n]
JNull == [t |-> "null"]
JList(l) == [t |-> "list", l |-> l]
JDict(f) == [t |-> "dict", d |-> f]
JBool(b) == [t |-> "bool", b |-> b]

\* the empty mapping
EmptyMap == [k \in {} |-> JNull]

\* dict.get(key) of Python: None when the key is absent
DictGet(j, k) == IF k \in DOMAIN j.d THEN j.d[k] ELSE JNull

\* the mapping f restricted to the keys in ks
Restrict(f, ks) == [k \in (DOMAIN f) \cap ks |-> f[k]]

\* the ops of a document: validated_data.get('delta', [])
Ops(doc) == IF doc.t = "dict" /\ "delta" \in DOMAIN doc.d THEN doc.d["delta"].l ELSE <<>>

\* str.startswith(prefix)
StartsWith(s, p) == Len(s) >= Len(p) /\ SubSeq(s, 1, Len(p)) = p

HTTP == <<"h", "t", "t", "p", ":", "/", "/">>
HTTPS == <<"h", "t", "t", "p", "s", ":", "/", "/">>

(***************************************************************************)
(* Validation: DeltaOpsSerializer and QuillDeltaSerializer.                *)
(* `partial` is the flag of the root serializer (PATCH): a field absent    *)
(* from the input is then skipped, neither required nor defaulted.         *)
(***************************************************************************)
DISALLOWED_MEDIA_TYPES == {"video"}

\* a to_internal_value without the isinstance test
TextOrMediaField_accepts_all(data) == TRUE

\* TextOrMediaField.to_internal_value accepts a str or a dict and returns it
TextOrMediaField_accepts(data) == data.t \in {"str", "dict"}

\* a validate_insert that forbids nothing
forbids_nothing(value) == FALSE

\* a validate_insert that raises only when a forbidden key is the only key
forbidden_is_only_key(value) ==
    /\ value.t = "dict"
    /\ \E media_type \in DISALLOWED_MEDIA_TYPES : DOMAIN value.d = {media_type}

\* DeltaOpsSerializer.validate_insert raises for a dict with a forbidden key
contains_forbidden_media(value) ==
    /\ value.t = "dict"
    /\ \E media_type \in DISALLOWED_MEDIA_TYPES : media_type \in DOMAIN value.d

\* the keys of one op that fail validation (the keys of its error detail)
OpErrors(item, partial) ==
    IF item.t # "dict" THEN {"non_field_errors"}
    ELSE
      (IF "insert" \notin DOMAIN item.d
         THEN (IF partial THEN {} ELSE {"insert"})
         ELSE LET v == item.d["insert"] IN
              IF \/ v.t = "null"
                 \/ ~TextOrMediaField_accepts(v)
                 \/ contains_forbidden_media(v)
                THEN {"insert"} ELSE {})
      \cup
      (IF /\ "attributes" \in DOMAIN item.d
          /\ item.d["attributes"].t # "dict"
         THEN {"attributes"} ELSE {})

\* a validated op that keeps the insert only
OpValueInsertOnly(item) == JDict(Restrict(item.d, {"insert"}))

\* the validated op: the declared fields that the input carries
OpValue(item) == JDict(Restrict(item.d, {"insert", "attributes"}))

\* IntegerField: an integer, or a string of digits
Digits == {"0", "1", "2", "3", "4", "5", "6", "7", "8", "9"}
DigitValue(c) == CHOOSE n \in 0..9 : ToString(n) = c
RECURSIVE ParseInt(_)
ParseInt(s) == IF s = <<>> THEN 0
               ELSE 10 * ParseInt(SubSeq(s, 1, Len(s) - 1)) + DigitValue(s[Len(s)])
IntegerField_accepts(data) ==
    \/ data.t = "int"
    \/ data.t = "str" /\ data.s # <<>> /\ \A i \in 1..Len(data.s) : data.s[i] \in Digits
\* a to_internal_value that returns its input unconverted
IntegerField_value_raw(data) == data

IntegerField_value(data) == IF data.t = "int" THEN data ELSE JInt(ParseInt(data.s))

\* QuillDeltaSerializer run on the raw document
\* result: ok, the validated document, and the error detail
\*   errors.keys: the top-level keys of the error detail
\*   errors.delta: one set of failing keys per op (when delta is a list)
ValidateDelta(raw, partial) ==
    IF raw.t # "dict"
      THEN [ok |-> FALSE, doc |-> JNull,
            errors |-> [keys |-> {"non_field_errors"}, delta |-> <<>>]]
      ELSE
        LET d == raw.d
            svBad == "schema_version" \in DOMAIN d
                     /\ ~IntegerField_accepts(d["schema_version"])
            isList == "delta" \in DOMAIN d /\ d["delta"].t = "list"
            items == IF isList THEN d["delta"].l ELSE <<>>
            itemErrs == [i \in 1..Len(items) |-> OpErrors(items[i], partial)]
            deltaBad == \/ "delta" \in DOMAIN d /\ ~isList
                        \/ \E i \in 1..Len(items) : itemErrs[i] # {}
            sv == IF "schema_version" \in DOMAIN d
                    THEN ("schema_version" :> IntegerField_value(d["schema_version"]))
                    ELSE IF partial THEN EmptyMap
                    ELSE ("schema_version" :> JInt(0))
            dl == IF "delta" \in DOMAIN d
                    THEN ("delta" :> JList([i \in 1..Len(items) |-> OpValue(items[i])]))
                    ELSE IF partial THEN EmptyMap
                    ELSE ("delta" :> JList(<<>>))
            good == ~svBad /\ ~deltaBad
        IN [ok |-> good,
            doc |-> IF good THEN JDict(sv @@ dl) ELSE JNull,
            errors |-> [keys |-> (IF svBad THEN {"schema_version"} ELSE {})
                                 \cup (IF deltaBad THEN {"delta"} ELSE {}),
                        delta |-> itemErrs]]

\* the serializer of the post on the request payload: `content` is the nested
\* QuillDeltaSerializer, required unless the root serializer is partial
ValidatePost(payload, partial) ==
    IF "content" \notin DOMAIN payload
      THEN [ok |-> partial, provided |-> FALSE, doc |-> JNull,
            errors |-> [keys |-> {}, delta |-> <<>>]]
      ELSE LET r == ValidateDelta(payload["content"], partial)
           IN [ok |-> r.ok, provided |-> TRUE, doc |-> r.doc, errors |-> r.errors]

(***************************************************************************)
(* The renderer: render_delta_to_html.                                     *)
(* A result is [ok, html]: ok is FALSE when the function raises.           *)
(***************************************************************************)
\* the pieces of markup the renderer emits, and the entities of html.escape
AMP ==
    <<"&", "a", "m", "p", ";">>
LT ==
    <<"&", "l", "t", ";">>
GT ==
    <<"&", "g", "t", ";">>
QUOT ==
    <<"&", "q", "u", "o", "t", ";">>
APOS ==
    <<"&", "#", "x", "2", "7", ";">>
STRONG_OPEN ==
    <<"<", "s", "t", "r", "o", "n", "g", ">">>
STRONG_CLOSE ==
    <<"<", "/", "s", "t", "r", "o", "n", "g", ">">>
EM_OPEN ==
    <<"<", "e", "m", ">">>
EM_CLOSE ==
    <<"<", "/", "e", "m", ">">>
U_OPEN ==
    <<"<", "u", ">">>
U_CLOSE ==
    <<"<", "/", "u", ">">>
S_OPEN ==
    <<"<", "s", ">">>
S_CLOSE ==
    <<"<", "/", "s", ">">>
A_OPEN_1 ==
    <<"<", "a", " ", "h", "r", "e", "f", "=", "\"">>
A_OPEN_2 ==
    <<"\"", " ", "t", "a", "r", "g", "e", "t", "=", "\"", "_", "b", "l", "a", "n", "k", "\"", " ", "r", "e", "l", "=", "\"", "n", "o", "o", "p", "e", "n", "e", "r", " ", "n", "o", "r", "e", "f", "e", "r", "r", "e", "r", "\"", ">">>
A_CLOSE ==
    <<"<", "/", "a", ">">>
IMG_1 ==
    <<"<", "i", "m", "g", " ", "s", "r", "c", "=", "\"">>
IMG_2 ==
    <<"\"", " ", "a", "l", "t", "=", "\"", "E", "m", "b", "e", "d", "d", "e", "d", " ", "i", "m", "a", "g", "e", "\"", "/", ">">>

\* the truth value Python gives a JSON value
Truthy(j) ==
    CASE j.t = "str" -> j.s # <<>>
      [] j.t = "int" -> j.n # 0
      [] j.t = "bool" -> j.b
      [] j.t = "dict" -> DOMAIN j.d # {}
      [] j.t = "list" -> j.l # <<>>
      [] OTHER -> FALSE

\* html.escape of one character (quote=True)
EscapeChar(c) ==
    CASE c = "&" -> AMP
      [] c = "<" -> LT
      [] c = ">" -> GT
      [] c = "\"" -> QUOT
      [] c = "'" -> APOS
      [] OTHER -> <<c>>

\* html.escape(s)
RECURSIVE Escape(_)
Escape(s) == IF s = <<>> THEN <<>> ELSE EscapeChar(Head(s)) \o Escape(Tail(s))

\* a rendering of text that puts the link into href as it is
text_fragment_link_unescaped(insert, attributes) ==
    IF ~Truthy(attributes) THEN [ok |-> TRUE, html |-> Escape(insert.s)]
    ELSE IF attributes.t # "dict" THEN [ok |-> FALSE, html |-> <<>>]
    ELSE
      LET on(k) == Truthy(DictGet(attributes, k))
          c0 == Escape(insert.s)
          c1 == IF on("bold") THEN STRONG_OPEN \o c0 \o STRONG_CLOSE ELSE c0
          c2 == IF on("italic") THEN EM_OPEN \o c1 \o EM_CLOSE ELSE c1
          c3 == IF on("underline") THEN U_OPEN \o c2 \o U_CLOSE ELSE c2
          c4 == IF on("strike") THEN S_OPEN \o c3 \o S_CLOSE ELSE c3
          link == DictGet(attributes, "link")
      IN IF ~on("link") THEN [ok |-> TRUE, html |-> c4]
         ELSE IF link.t # "str" THEN [ok |-> FALSE, html |-> <<>>]
         ELSE [ok |-> TRUE,
               html |-> A_OPEN_1 \o link.s \o A_OPEN_2 \o c4 \o A_CLOSE]

\* a rendering of text that tests italic before bold
text_fragment_italic_first(insert, attributes) ==
    IF ~Truthy(attributes) THEN [ok |-> TRUE, html |-> Escape(insert.s)]
    ELSE IF attributes.t # "dict" THEN [ok |-> FALSE, html |-> <<>>]
    ELSE
      LET on(k) == Truthy(DictGet(attributes, k))
          c0 == Escape(insert.s)
          c1 == IF on("italic") THEN EM_OPEN \o c0 \o EM_CLOSE ELSE c0
          c2 == IF on("bold") THEN STRONG_OPEN \o c1 \o STRONG_CLOSE ELSE c1
          c3 == IF on("underline") THEN U_OPEN \o c2 \o U_CLOSE ELSE c2
          c4 == IF on("strike") THEN S_OPEN \o c3 \o S_CLOSE ELSE c3
          link == DictGet(attributes, "link")
      IN IF ~on("link") THEN [ok |-> TRUE, html |-> c4]
         ELSE IF link.t # "str" THEN [ok |-> FALSE, html |-> <<>>]
         ELSE [ok |-> TRUE,
               html |-> A_OPEN_1 \o Escape(link.s) \o A_OPEN_2 \o c4 \o A_CLOSE]

\* the branch isinstance(insert, str): the escaped text, wrapped once for
\* each truthy attribute, in the order of the if statements
text_fragment(insert, attributes) ==
    IF ~Truthy(attributes) THEN [ok |-> TRUE, html |-> Escape(insert.s)]
    ELSE IF attributes.t # "dict" THEN [ok |-> FALSE, html |-> <<>>]
    ELSE
      LET on(k) == Truthy(DictGet(attributes, k))
          c0 == Escape(insert.s)
          c1 == IF on("bold") THEN STRONG_OPEN \o c0 \o STRONG_CLOSE ELSE c0
          c2 == IF on("italic") THEN EM_OPEN \o c1 \o EM_CLOSE ELSE c1
          c3 == IF on("underline") THEN U_OPEN \o c2 \o U_CLOSE ELSE c2
          c4 == IF on("strike") THEN S_OPEN \o c3 \o S_CLOSE ELSE c3
          link == DictGet(attributes, "link")
      IN IF ~on("link") THEN [ok |-> TRUE, html |-> c4]
         ELSE IF link.t # "str" THEN [ok |-> FALSE, html |-> <<>>]
         ELSE [ok |-> TRUE,
               html |-> A_OPEN_1 \o Escape(link.s) \o A_OPEN_2 \o c4 \o A_CLOSE]

\* a rendering of media that reads insert['image'] without testing the key
media_fragment_requires_image(insert) ==
    IF "image" \notin DOMAIN insert.d \/ insert.d["image"].t # "str"
      THEN [ok |-> FALSE, html |-> <<>>]
      ELSE [ok |-> TRUE, html |-> IMG_1 \o Escape(insert.d["image"].s) \o IMG_2]

\* the branch isinstance(insert, dict)
media_fragment(insert) ==
    IF "image" \notin DOMAIN insert.d THEN [ok |-> TRUE, html |-> <<>>]
    ELSE IF insert.d["image"].t # "str" THEN [ok |-> FALSE, html |-> <<>>]
    ELSE [ok |-> TRUE, html |-> IMG_1 \o Escape(insert.d["image"].s) \o IMG_2]

\* the body of the loop: what one op appends to the list html
Fragment(op) ==
    IF op.t # "dict" THEN [ok |-> FALSE, html |-> <<>>]
    ELSE
      LET insert == DictGet(op, "insert")
          attributes == IF "attributes" \in DOMAIN op.d
                          THEN op.d["attributes"] ELSE JDict(EmptyMap)
      IN IF ~Truthy(insert) THEN [ok |-> TRUE, html |-> <<>>]
         ELSE IF insert.t = "str" THEN text_fragment(insert, attributes)
         ELSE IF insert.t = "dict" THEN media_fragment(insert)
         ELSE [ok |-> TRUE, html |-> <<>>]

\* ''.join(parts)
RECURSIVE Join(_)
Join(parts) == IF parts = <<>> THEN <<>> ELSE Head(parts) \o Join(Tail(parts))

render_delta_to_html(delta_ops) ==
    LET frags == [i \in 1..Len(delta_ops) |-> Fragment(delta_ops[i])]
    IN IF \E i \in 1..Len(delta_ops) : ~frags[i].ok
         THEN [ok |-> FALSE, html |-> <<>>]
         ELSE [ok |-> TRUE, html |-> Join([i \in 1..Len(delta_ops) |-> frags[i].html])]

(***************************************************************************)
(* The rehoster: QuillDeltaSerializer._process_files and its helpers.      *)
(***************************************************************************)
\* the name of the attachment field PostSerializer configures
file_field_name == "content_files"

\* a QuillDeltaSerializer constructed without file_field_name has None
NO_FIELD_NAME == "None"

_is_insert_image(insert) ==
    /\ insert.t = "dict"
    /\ "image" \in DOMAIN insert.d
    /\ insert.d["image"].t = "str"

\* a URL test that accepts every string
_is_valid_any_str(url) == url.t = "str"

_is_valid_insert_image_url(url) ==
    /\ url.t = "str"
    /\ (StartsWith(url.s, HTTP) \/ StartsWith(url.s, HTTPS))

\* a loop head without the test of the URL
QualifiesAnyImage(op) == _is_insert_image(DictGet(op, "insert"))

\* the two `continue` tests at the head of the loop body
Qualifies(op) ==
    LET insert == DictGet(op, "insert")
    IN _is_insert_image(insert) /\ _is_valid_insert_image_url(insert.d["image"])

\* op['insert'] = {'image': url}
SetImageAsNewInsert(op, url) ==
    JDict([op.d EXCEPT !["insert"] = JDict("image" :> JStr(url))])

\* op['insert']['image'] = url
SetImage(op, url) ==
    JDict([op.d EXCEPT !["insert"] = JDict([@.d EXCEPT !["image"] = JStr(url)])])

\* FieldFile.url: the media prefix of the storage followed by the stored name,
\* which is unique to the PostFile (its id and a fresh uuid)
FileUrl(media, id) == media \o <<"f", ToString(id)>>

\* validated_data.get(field_name, {}).get('delta', [])
DeltaOf(provided, content) ==
    IF provided /\ "delta" \in DOMAIN content.d THEN content.d["delta"].l ELSE <<>>

\* the content with the op at position i replaced
WithOp(content, i, op) ==
    JDict([content.d EXCEPT !["delta"] = JList([@.l EXCEPT ![i] = op])])

(***************************************************************************)
(* State.                                                                  *)
(***************************************************************************)
VARIABLES
    media_url,   \* the URL prefix of the file storage (a setting)
    db,          \* the persisted content of the post, or NoPost
    files,       \* the PostFile records, by id: [stored |-> the file is saved]
    links,       \* the ids of the PostFiles in the post's content_files
    call,        \* worker -> the request it is serving
    vraw,        \* a raw document handed to QuillDeltaSerializer(data=...)
    vpartial,    \* whether that serializer is partial
    vres,        \* the outcome of its is_valid(), or NotRun
    rops,        \* a list of ops handed to render_delta_to_html
    rhtml        \* what the call gave, or NotRendered

vars == <<media_url, db, files, links, call, vraw, vpartial, vres, rops, rhtml>>

\* the variables of the serializer run on its own
valvars == <<vraw, vpartial, vres>>

\* the variables of the renderer run on its own
rendervars == <<rops, rhtml>>

Workers == {"w1", "w2"}
NoPost == [t |-> "none"]

\* the storage prefixes: a path on this host, or an absolute URL
MEDIA_RELATIVE == <<"/", "m", "/">>
MEDIA_ABSOLUTE == HTTPS \o <<"m", "/">>

\* strings the requests use
REMOTE_HTTPS == HTTPS \o <<"p">>
REMOTE_HTTP == HTTP \o <<"e">>
INVALID_URL == <<"i", "n", "v", "a", "l", "i", "d", "-", "u", "r", "l">>
HELLO == <<"H", "i">>

TextOp == JDict("insert" :> JStr(HELLO))
ImageOp(url) == JDict("insert" :> JDict("image" :> JStr(url)))
VideoOp == JDict("insert" :> JDict("video" :> JStr(REMOTE_HTTP)))

\* a request that is not being served
IdleCall ==
    [pc |-> "idle", creating |-> FALSE, provided |-> FALSE,
     content |-> JNull, submitted |-> JNull, i |-> 0, is_modified |-> FALSE,
     log |-> <<>>, out |-> <<>>, file_base |-> 0, status |-> 0, body |-> JNull,
     errors |-> [keys |-> {}, delta |-> <<>>],
     field_name |-> file_field_name, owner |-> TRUE]

NotRun == [ok |-> FALSE, doc |-> JNull, errors |-> [keys |-> {"not_run"}, delta |-> <<>>]]

NotRendered == [ok |-> FALSE, html |-> <<"not_rendered">>]

\* the database is empty and no request is being served
InitPosts ==
    /\ media_url \in {MEDIA_RELATIVE, MEDIA_ABSOLUTE}
    /\ db = NoPost
    /\ files = <<>>
    /\ links = {}
    /\ call = [w \in Workers |-> IdleCall]

Init ==
    /\ InitPosts
    /\ vraw = JNull
    /\ vpartial = FALSE
    /\ vres = NotRun
    /\ rops = <<>>
    /\ rhtml = NotRendered

\* the ids of the PostFiles whose file is saved
StoredFiles == {k \in 1..Len(files) : files[k].stored}

\* the ops a request may carry: a text, two remote images, an image that is
\* not an http(s) URL, a video, and the images the post already has as
\* attachments, by the URLs earlier responses gave
RequestOps ==
    {TextOp, ImageOp(REMOTE_HTTPS), ImageOp(REMOTE_HTTP), ImageOp(INVALID_URL), VideoOp}
    \cup {ImageOp(FileUrl(media_url, k)) : k \in links \cap StoredFiles}

RequestDeltas == UNION {[1..n -> RequestOps] : n \in 0..MaxOps}

\* the raw documents a request may carry
RequestDocs ==
    {JDict("schema_version" :> JInt(0) @@ "delta" :> JList(l)) : l \in RequestDeltas}
    \cup {JDict("schema_version" :> JInt(1)),
          JDict("delta" :> JStr(HELLO)),
          JDict("delta" :> JList(<<TextOp>>) @@ "html" :> JStr(HELLO))}

\* the payloads: with a content, or without one
Payloads == {("content" :> c) : c \in RequestDocs} \cup {EmptyMap}

\* the remote images of a raw document
RemoteCount(payload) ==
    IF "content" \in DOMAIN payload /\ "delta" \in DOMAIN payload["content"].d
       /\ payload["content"].d["delta"].t = "list"
      THEN LET l == payload["content"].d["delta"].l
           IN Cardinality({i \in 1..Len(l) : l[i].t = "dict" /\ Qualifies(l[i])})
      ELSE 0

\* PostFile records the requests being served may still create
Pending(w) ==
    IF call[w].pc \in {"validated", "saved", "rehost"}
      THEN LET l == DeltaOf(call[w].provided, call[w].content)
           IN Cardinality({j \in 1..Len(l) : j >= call[w].i /\ Qualifies(l[j])})
      ELSE 0

\* creations being served that have not inserted the post yet
Creating == {w \in Workers : call[w].pc = "validated" /\ call[w].creating}

\* the sum of Pending over the workers in ws
RECURSIVE PendingSum(_)
PendingSum(ws) ==
    IF ws = {} THEN 0
    ELSE LET w == CHOOSE x \in ws : TRUE IN Pending(w) + PendingSum(ws \ {w})

(***************************************************************************)
(* The steps of a create (POST) or update (PUT, PATCH) request.            *)
(***************************************************************************)
\* The view receives the request, loads the post of an update and runs
\* serializer.is_valid(raise_exception=True): an invalid payload is answered
\* with status 400 and nothing else happens.
\* `creating` tells a creation (POST) from an update (PUT, or PATCH with a
\* partial serializer).  For an update, `content` is the content of the instance as it will be once
\* the validated attributes are set on it: the validated document when the
\* payload has one, the content loaded from the database otherwise.
Request(w, method, payload) ==
    /\ call[w].pc = "idle"
    /\ IF method = "POST" THEN db = NoPost /\ Creating = {} ELSE db # NoPost
    /\ Len(files) + PendingSum(Workers \ {w}) + RemoteCount(payload) <= MaxFiles
    /\ LET v == ValidatePost(payload, method = "PATCH")
       IN call' = [call EXCEPT ![w] =
            IF v.ok
              THEN [IdleCall EXCEPT !.pc = "validated",
                                    !.creating = (method = "POST"),
                                    !.file_base = Len(files),
                                    !.provided = v.provided,
                                    !.content = IF v.provided THEN v.doc ELSE db,
                                    !.submitted = IF v.provided THEN v.doc ELSE db,
                                    !.log = <<"validate">>]
              ELSE [IdleCall EXCEPT !.pc = "error",
                                    !.creating = (method = "POST"),
                                    !.file_base = Len(files),
                                    !.log = <<"validate">>,
                                    !.status = 400, !.errors = v.errors]]
    /\ UNCHANGED <<media_url, db, files, links>>

\* super().create(validated_data) / super().update(instance, validated_data):
\* the post is inserted, or its attributes are set and it is saved
PersistFirst(w) ==
    /\ call[w].pc = "validated"
    /\ db' = call[w].content
    /\ call' = [call EXCEPT ![w].pc = "saved", ![w].log = Append(@, "persist")]
    /\ UNCHANGED <<media_url, files, links>>

\* a guard that only tests the instance
StartRehostWithoutFieldTest(w) ==
    /\ call[w].pc = "saved"
    /\ call' = [call EXCEPT
          ![w].pc = "rehost",
          ![w].i = IF ~call[w].owner
                     THEN Len(DeltaOf(call[w].provided, call[w].content)) + 1
                     ELSE 1,
          ![w].is_modified = FALSE,
          ![w].log = Append(@, "rehost")]
    /\ UNCHANGED <<media_url, db, files, links>>

\* perform_create_file / perform_update_file up to the loop of _process_files:
\* the Quill field is found and _process_files is called; it returns False at
\* once, without entering the loop, when file_field_name is not set or there
\* is no instance
StartRehost(w) ==
    /\ call[w].pc = "saved"
    /\ call' = [call EXCEPT
          ![w].pc = "rehost",
          ![w].i = IF call[w].field_name = NO_FIELD_NAME \/ ~call[w].owner
                     THEN Len(DeltaOf(call[w].provided, call[w].content)) + 1
                     ELSE 1,
          ![w].is_modified = FALSE,
          ![w].log = Append(@, "rehost")]
    /\ UNCHANGED <<media_url, db, files, links>>

\* an op that is not an image with an http(s) URL: `continue`
SkipOp(w) ==
    /\ call' = [call EXCEPT ![w].i = @ + 1,
                            ![w].out = Append(@, [r |-> "skipped", file |-> 0])]
    /\ UNCHANGED <<media_url, db, files, links>>

\* a failed download that ends the loop (`break`)
DownloadFailsBreaks(w) ==
    /\ call' = [call EXCEPT
          ![w].i = Len(DeltaOf(call[w].provided, call[w].content)) + 1,
          ![w].out = Append(@, [r |-> "download_failed", file |-> 0])]
    /\ UNCHANGED <<media_url, db, files, links>>

\* a loop body that creates the PostFile before the download
DownloadFailsAfterCreate(w) ==
    /\ files' = Append(files, [stored |-> FALSE])
    /\ call' = [call EXCEPT ![w].i = @ + 1,
                            ![w].out = Append(@, [r |-> "download_failed", file |-> 0])]
    /\ UNCHANGED <<media_url, db, links>>

\* download_image_content returned None: `continue`
DownloadFails(w) ==
    /\ call' = [call EXCEPT ![w].i = @ + 1,
                            ![w].out = Append(@, [r |-> "download_failed", file |-> 0])]
    /\ UNCHANGED <<media_url, db, files, links>>

\* a loop body without the try/except: the exception of the storage escapes
StorageFailsRaises(w) ==
    /\ files' = Append(files, [stored |-> FALSE])
    /\ call' = [call EXCEPT ![w].pc = "error", ![w].status = 500,
                            ![w].out = Append(@, [r |-> "storage_failed",
                                                  file |-> Len(files) + 1])]
    /\ UNCHANGED <<media_url, db, links>>

\* file_model.objects.create() made the record, new_file.file.save raised:
\* the exception is logged and the loop goes on
StorageFails(w) ==
    /\ files' = Append(files, [stored |-> FALSE])
    /\ call' = [call EXCEPT ![w].i = @ + 1,
                            ![w].out = Append(@, [r |-> "storage_failed",
                                                  file |-> Len(files) + 1])]
    /\ UNCHANGED <<media_url, db, links>>

\* a loop body that forgets is_modified = True
RehostedUnflagged(w) ==
    LET c == call[w]
        id == Len(files) + 1
        op == DeltaOf(c.provided, c.content)[c.i]
    IN /\ files' = Append(files, [stored |-> TRUE])
       /\ links' = links \cup {id}
       /\ call' = [call EXCEPT
             ![w].content = WithOp(c.content, c.i, SetImage(op, FileUrl(media_url, id))),
             ![w].i = @ + 1,
             ![w].out = Append(@, [r |-> "rehosted", file |-> id])]
       /\ UNCHANGED <<media_url, db>>

\* a loop body that sets content_files to the new file instead of adding it
RehostedReplacesLinks(w) ==
    LET c == call[w]
        id == Len(files) + 1
        op == DeltaOf(c.provided, c.content)[c.i]
    IN /\ files' = Append(files, [stored |-> TRUE])
       /\ links' = {id}
       /\ call' = [call EXCEPT
             ![w].content = WithOp(c.content, c.i, SetImage(op, FileUrl(media_url, id))),
             ![w].is_modified = TRUE,
             ![w].i = @ + 1,
             ![w].out = Append(@, [r |-> "rehosted", file |-> id])]
       /\ UNCHANGED <<media_url, db>>

\* the record is created, the file saved, the record added to the post's
\* content_files, and the op's image URL overwritten with the file's URL
Rehosted(w) ==
    LET c == call[w]
        id == Len(files) + 1
        op == DeltaOf(c.provided, c.content)[c.i]
    IN /\ files' = Append(files, [stored |-> TRUE])
       /\ links' = links \cup {id}
       /\ call' = [call EXCEPT
             ![w].content = WithOp(c.content, c.i, SetImage(op, FileUrl(media_url, id))),
             ![w].is_modified = TRUE,
             ![w].i = @ + 1,
             ![w].out = Append(@, [r |-> "rehosted", file |-> id])]
       /\ UNCHANGED <<media_url, db>>

\* the loop of _process_files has an op left to visit
InLoop(w) ==
    /\ call[w].pc = "rehost"
    /\ call[w].i <= Len(DeltaOf(call[w].provided, call[w].content))

\* the op the loop is at
CurrentOp(w) == DeltaOf(call[w].provided, call[w].content)[call[w].i]

\* the loop is over
RehostOver(w) ==
    /\ call[w].pc = "rehost"
    /\ call[w].i > Len(DeltaOf(call[w].provided, call[w].content))

\* a second save that writes only the ops the pass has rewritten into the
\* stored document
PersistSecondRewrittenOps(w) ==
    /\ RehostOver(w)
    /\ call[w].is_modified
    /\ db' = IF "delta" \in DOMAIN db.d
               THEN JDict([db.d EXCEPT !["delta"] =
                      JList([i \in 1..Len(@.l) |->
                               IF /\ i <= Len(Ops(call[w].content))
                                  /\ Ops(call[w].content)[i] # Ops(call[w].submitted)[i]
                                 THEN Ops(call[w].content)[i] ELSE @.l[i]])])
               ELSE db
    /\ call' = [call EXCEPT ![w].pc = "respond", ![w].log = Append(@, "persist")]
    /\ UNCHANGED <<media_url, files, links>>

\* a second save that does not look at is_modified
PersistSecondAlways(w) ==
    /\ RehostOver(w)
    /\ db' = call[w].content
    /\ call' = [call EXCEPT ![w].pc = "respond", ![w].log = Append(@, "persist")]
    /\ UNCHANGED <<media_url, files, links>>

\* if is_modified: instance.save()
PersistSecond(w) ==
    /\ RehostOver(w)
    /\ call[w].is_modified
    /\ db' = call[w].content
    /\ call' = [call EXCEPT ![w].pc = "respond", ![w].log = Append(@, "persist")]
    /\ UNCHANGED <<media_url, files, links>>

\* QuillDeltaSerializer.to_representation(instance): the declared fields the
\* stored document has, and html, rendered from data['delta'].  It raises
\* (ok is FALSE) when the document has no delta, when an op has no insert,
\* and when the renderer raises.
to_representation(instance) ==
    LET ops == Ops(instance)
        r == render_delta_to_html(ops)
    IN IF \/ "delta" \notin DOMAIN instance.d
          \/ \E i \in 1..Len(ops) : "insert" \notin DOMAIN ops[i].d
          \/ ~r.ok
         THEN [ok |-> FALSE, data |-> JNull]
         ELSE [ok |-> TRUE,
               data |-> JDict(Restrict(instance.d, {"schema_version", "delta"})
                              @@ ("html" :> JStr(r.html)))]

\* the view answers with serializer.data, the representation of the instance
Respond(w) ==
    /\ \/ call[w].pc = "respond"
       \/ RehostOver(w) /\ ~call[w].is_modified
    /\ call' = [call EXCEPT
          ![w].pc = "done",
          ![w].status = IF ~to_representation(call[w].content).ok THEN 500
                        ELSE IF call[w].creating THEN 201 ELSE 200,
          ![w].body = to_representation(call[w].content).data]
    /\ UNCHANGED <<media_url, db, files, links>>

\* the response is sent and the worker is free for the next request
Return(w) ==
    /\ call[w].pc \in {"done", "error"}
    /\ call' = [call EXCEPT ![w] = IdleCall]
    /\ UNCHANGED <<media_url, db, files, links>>

Methods == {"POST", "PUT", "PATCH"}

\* a step of worker w
Step(w) ==
    \/ /\ call[w].pc = "idle"
       /\ \E method \in Methods, payload \in Payloads :
             Request(w, method, payload)
       /\ UNCHANGED <<valvars, rendervars>>
    \/ PersistFirst(w) /\ UNCHANGED <<valvars, rendervars>>
    \/ StartRehost(w) /\ UNCHANGED <<valvars, rendervars>>
    \/ InLoop(w) /\ ~Qualifies(CurrentOp(w)) /\ SkipOp(w) /\ UNCHANGED <<valvars, rendervars>>
    \/ InLoop(w) /\ Qualifies(CurrentOp(w)) /\ DownloadFails(w)
                 /\ UNCHANGED <<valvars, rendervars>>
    \/ InLoop(w) /\ Qualifies(CurrentOp(w)) /\ StorageFails(w)
                 /\ UNCHANGED <<valvars, rendervars>>
    \/ InLoop(w) /\ Qualifies(CurrentOp(w)) /\ Rehosted(w)
                 /\ UNCHANGED <<valvars, rendervars>>
    \/ PersistSecond(w) /\ UNCHANGED <<valvars, rendervars>>
    \/ Respond(w) /\ UNCHANGED <<valvars, rendervars>>
    \/ Return(w) /\ UNCHANGED <<valvars, rendervars>>

\* requests are served one at a time
Next == Step("w1")

Spec == Init /\ [][Next]_vars

TypeOK ==
    /\ media_url \in {MEDIA_RELATIVE, MEDIA_ABSOLUTE}
    /\ \A k \in 1..Len(files) : files[k].stored \in BOOLEAN
    /\ links \subseteq 1..Len(files)
    /\ Len(files) <= MaxFiles

(***************************************************************************)
(* The serializer on its own: QuillDeltaSerializer(data=raw).is_valid()    *)
(* on a bounded set of raw documents, as the tests of test_quill_delta.py  *)
(* run it.                                                                 *)
(***************************************************************************)
BOLD == JDict("bold" :> JBool(TRUE))
X == JStr(<<"x">>)

\* the ops of the raw documents: well-formed ones and malformed ones
RawOps ==
    { TextOp,
      JDict("insert" :> JStr(HELLO) @@ "attributes" :> BOLD),
      JDict("insert" :> JStr(HELLO) @@ "attributes" :> JDict("color" :> X)),
      JDict("insert" :> JStr(<<>>)),
      ImageOp(REMOTE_HTTP),
      JDict("insert" :> JDict("image" :> JStr(REMOTE_HTTP) @@ "alt" :> X)),
      JDict("insert" :> JDict("image" :> JInt(5))),
      JDict("insert" :> JDict("audio" :> X)),
      JDict("insert" :> JDict(EmptyMap)),
      VideoOp,
      JDict("insert" :> JDict("video" :> JStr(REMOTE_HTTP) @@ "image" :> JStr(REMOTE_HTTP))),
      JDict("insert" :> JDict("video" :> JNull)),
      JDict("attributes" :> BOLD),
      JDict("insert" :> JInt(5)),
      JDict("insert" :> JNull),
      JDict("insert" :> JStr(HELLO) @@ "invalid_key" :> X),
      JDict("invalid_key" :> X),
      JDict("insert" :> JStr(HELLO) @@ "attributes" :> X),
      JDict("insert" :> JStr(HELLO) @@ "attributes" :> JDict("link" :> JBool(TRUE))),
      X }

RawDeltas == UNION {[1..n -> RawOps] : n \in 0..MaxOps}

\* the values of schema_version, and the absence of the key
RawVersions ==
    {EmptyMap} \cup
    {("schema_version" :> v) :
        v \in {JInt(1), JInt(-1), JStr(<<"7">>), X, JNull}}

\* the values of delta, and the absence of the key
RawDeltaParts ==
    {EmptyMap, ("delta" :> JStr(HELLO))} \cup {("delta" :> JList(l)) : l \in RawDeltas}

\* with an html key, as a client that sends back what it read, or without
RawExtras == {EmptyMap, ("html" :> X)}

RawDocs ==
    {JDict(v @@ d @@ e) : v \in RawVersions, d \in RawDeltaParts, e \in RawExtras}
    \cup {JStr(HELLO)}

InitValidate ==
    /\ media_url = MEDIA_RELATIVE
    /\ db = NoPost
    /\ files = <<>>
    /\ links = {}
    /\ call = [w \in Workers |-> IdleCall]
    /\ vraw \in RawDocs
    /\ vpartial \in BOOLEAN
    /\ vres = NotRun
    /\ rops = <<>>
    /\ rhtml = NotRendered

\* serializer.is_valid()
RunValidation ==
    /\ vres = NotRun
    /\ vres' = ValidateDelta(vraw, vpartial)
    /\ UNCHANGED <<media_url, db, files, links, call, vraw, vpartial, rendervars>>

NextValidate == RunValidation

SpecValidate == InitValidate /\ [][NextValidate]_vars

\* the ops of the raw document, when its delta is a list
RawItems ==
    IF vraw.t = "dict" /\ "delta" \in DOMAIN vraw.d /\ vraw.d["delta"].t = "list"
      THEN vraw.d["delta"].l ELSE <<>>

\* the op has an insert that is a mapping with the key k
InsertHasKey(op, k) ==
    /\ op.t = "dict"
    /\ "insert" \in DOMAIN op.d
    /\ op.d["insert"].t = "dict"
    /\ k \in DOMAIN op.d["insert"].d

ValidationDone == vres # NotRun

(***************************************************************************)
(* The renderer on its own: render_delta_to_html(ops) on a bounded set of  *)
(* op lists, those the validator accepts and others.                       *)
(***************************************************************************)
SCRIPT == <<"<", "s", "c", "r", "i", "p", "t", ">">>
SPECIALS == <<"<", ">", "&", "\"", "'">>
LINK_URL == <<"u">>
LINK_SPECIAL == <<"a", "\"", ">", "<", "b", "&">>
IMAGE_SPECIAL == <<"i", "\"", "<", "&", "'", ">">>

FLAGS == {"bold", "italic", "underline", "strike"}

\* the attributes that set the flags in fs, with a link or without one
FlagAttributes == {[k \in fs |-> JBool(TRUE)] : fs \in SUBSET FLAGS}
LinkAttributes == {EmptyMap, ("link" :> JStr(LINK_URL))}

\* the text x under every combination of the five attributes
FormattedOps ==
    {JDict("insert" :> X @@ "attributes" :> JDict(f @@ l)) :
        f \in FlagAttributes, l \in LinkAttributes}

RenderOps ==
    FormattedOps \cup
    { JDict("insert" :> X),
      JDict("insert" :> JStr(SCRIPT)),
      JDict("insert" :> JStr(SPECIALS)
            @@ "attributes" :> JDict("bold" :> JBool(TRUE) @@ "link" :> JStr(LINK_SPECIAL))),
      JDict("insert" :> X
            @@ "attributes" :> JDict("bold" :> JBool(FALSE) @@ "italic" :> JBool(TRUE))),
      JDict("insert" :> X @@ "attributes" :> JDict("link" :> JStr(<<>>))),
      JDict("insert" :> X @@ "attributes" :> JDict("link" :> JBool(TRUE))),
      JDict("insert" :> X @@ "attributes" :> JDict("color" :> X)),
      JDict("insert" :> JStr(<<>>)),
      JDict("insert" :> JStr(<<>>) @@ "attributes" :> BOLD),
      JDict("attributes" :> BOLD),
      JDict(EmptyMap),
      JDict("insert" :> JNull),
      JDict("insert" :> JInt(5)),
      ImageOp(REMOTE_HTTP),
      ImageOp(IMAGE_SPECIAL),
      JDict("insert" :> JDict("image" :> JStr(REMOTE_HTTP) @@ "alt" :> X)),
      JDict("insert" :> JDict("image" :> JInt(5))),
      JDict("insert" :> JDict("audio" :> X)),
      JDict("insert" :> JDict(EmptyMap)),
      VideoOp }

RenderInputs == UNION {[1..n -> RenderOps] : n \in 0..MaxOps}

InitRender ==
    /\ media_url = MEDIA_RELATIVE
    /\ db = NoPost
    /\ files = <<>>
    /\ links = {}
    /\ call = [w \in Workers |-> IdleCall]
    /\ vraw = JNull
    /\ vpartial = FALSE
    /\ vres = NotRun
    /\ rops \in RenderInputs
    /\ rhtml = NotRendered

\* render_delta_to_html(rops)
Render ==
    /\ rhtml = NotRendered
    /\ rhtml' = render_delta_to_html(rops)
    /\ UNCHANGED <<media_url, db, files, links, call, valvars, rops>>

NextRender == Render

SpecRender == InitRender /\ [][NextRender]_vars

Rendered == rhtml # NotRendered

(***************************************************************************)
(* The rehoster on its own: _process_files(instance, delta) called on the  *)
(* delta of a validated document, by a serializer with or without          *)
(* file_field_name, with an instance or with None.                         *)
(***************************************************************************)
\* ops with attributes, and an image whose mapping has a second key
BoldTextOp == JDict("insert" :> JStr(HELLO) @@ "attributes" :> BOLD)
CaptionedImageOp ==
    JDict("insert" :> JDict("image" :> JStr(REMOTE_HTTP) @@ "alt" :> X)
          @@ "attributes" :> JDict("color" :> X))

\* the ops of the documents: those of the requests that are valid, and the
\* two above
ProcessOps ==
    {op \in RequestOps : OpErrors(op, FALSE) = {}} \cup {BoldTextOp, CaptionedImageOp}

\* the validated documents the call is made on
ProcessDocs ==
    {JDict("schema_version" :> JInt(0) @@ "delta" :> JList(l)) :
        l \in UNION {[1..n -> ProcessOps] : n \in 0..MaxOps}}

InitProcess ==
    /\ media_url \in {MEDIA_RELATIVE, MEDIA_ABSOLUTE}
    /\ files = <<>>
    /\ links = {}
    /\ \E doc \in ProcessDocs, name \in {file_field_name, NO_FIELD_NAME},
          present \in BOOLEAN :
          /\ db = doc
          /\ call = [w \in Workers |->
                       IF w = "w1"
                         THEN [IdleCall EXCEPT !.pc = "saved", !.provided = TRUE,
                                               !.content = doc, !.submitted = doc,
                                               !.field_name = name, !.owner = present,
                                               !.log = <<"validate", "persist">>]
                         ELSE IdleCall]
    /\ vraw = JNull
    /\ vpartial = FALSE
    /\ vres = NotRun
    /\ rops = <<>>
    /\ rhtml = NotRendered

\* the call of _process_files, from its guard to its return
NextProcess ==
    \/ StartRehost("w1") /\ UNCHANGED <<valvars, rendervars>>
    \/ InLoop("w1") /\ ~Qualifies(CurrentOp("w1")) /\ SkipOp("w1")
                   /\ UNCHANGED <<valvars, rendervars>>
    \/ InLoop("w1") /\ Qualifies(CurrentOp("w1")) /\ DownloadFails("w1")
                   /\ UNCHANGED <<valvars, rendervars>>
    \/ InLoop("w1") /\ Qualifies(CurrentOp("w1")) /\ StorageFails("w1")
                   /\ UNCHANGED <<valvars, rendervars>>
    \/ InLoop("w1") /\ Qualifies(CurrentOp("w1")) /\ Rehosted("w1")
                   /\ UNCHANGED <<valvars, rendervars>>

SpecProcess == InitProcess /\ [][NextProcess]_vars

(***************************************************************************)
(* Two updates of the same post served at the same time: each worker has   *)
(* its own instance, loaded when its request arrives, and the steps of the *)
(* two calls interleave freely.                                            *)
(***************************************************************************)
\* the document the post has before the two updates
BaseDoc == JDict("schema_version" :> JInt(0) @@ "delta" :> JList(<<>>))

\* the payloads of the updates: documents of texts and remote images, and a
\* payload without content
ConcurrentPayloads ==
    {("content" :> JDict("schema_version" :> JInt(0) @@ "delta" :> JList(l))) :
        l \in UNION {[1..n -> {TextOp, ImageOp(REMOTE_HTTPS)}] : n \in 1..MaxOps}}
    \cup {EmptyMap}

InitConcurrent ==
    /\ media_url = MEDIA_RELATIVE
    /\ db = BaseDoc
    /\ files = <<>>
    /\ links = {}
    /\ call = [w \in Workers |-> IdleCall]
    /\ vraw = JNull
    /\ vpartial = FALSE
    /\ vres = NotRun
    /\ rops = <<>>
    /\ rhtml = NotRendered

\* a step of the one update that worker w serves
UpdateStep(w) ==
    \/ /\ call[w].pc = "idle"
       /\ \E method \in {"PUT", "PATCH"}, payload \in ConcurrentPayloads :
             Request(w, method, payload)
       /\ UNCHANGED <<valvars, rendervars>>
    \/ PersistFirst(w) /\ UNCHANGED <<valvars, rendervars>>
    \/ StartRehost(w) /\ UNCHANGED <<valvars, rendervars>>
    \/ InLoop(w) /\ ~Qualifies(CurrentOp(w)) /\ SkipOp(w)
                 /\ UNCHANGED <<valvars, rendervars>>
    \/ InLoop(w) /\ Qualifies(CurrentOp(w)) /\ DownloadFails(w)
                 /\ UNCHANGED <<valvars, rendervars>>
    \/ InLoop(w) /\ Qualifies(CurrentOp(w)) /\ StorageFails(w)
                 /\ UNCHANGED <<valvars, rendervars>>
    \/ InLoop(w) /\ Qualifies(CurrentOp(w)) /\ Rehosted(w)
                 /\ UNCHANGED <<valvars, rendervars>>
    \/ PersistSecond(w) /\ UNCHANGED <<valvars, rendervars>>
    \/ Respond(w) /\ UNCHANGED <<valvars, rendervars>>

NextConcurrent == \E w \in Workers : UpdateStep(w)

SpecConcurrent == InitConcurrent /\ [][NextConcurrent]_vars

(***************************************************************************)
(* Properties of the lifecycle and of the rehoster.                        *)
(***************************************************************************)
\* the insert.image of the op at position i of a document
ImageAt(doc, i) == Ops(doc)[i].d["insert"].d["image"]

\* the URL of the PostFile k, as a JSON string
UrlOf(k) == JStr(FileUrl(media_url, k))

IsPrefix(s, t) == Len(s) <= Len(t) /\ SubSeq(t, 1, Len(s)) = s

STEPS == <<"validate", "persist", "rehost", "persist">>

\* the request of worker w was answered with success
Succeeded(w) == call[w].pc = "done" /\ call[w].status \in {200, 201}

\* the loop of the rehost pass of worker w is over
PassOver(w) == RehostOver(w) \/ call[w].pc \in {"respond", "done"}

\* an image op whose URL is a string that is not an http(s) URL
NonHttpImage(op) ==
    /\ InsertHasKey(op, "image")
    /\ op.d["insert"].d["image"].t = "str"
    /\ ~StartsWith(op.d["insert"].d["image"].s, HTTP)
    /\ ~StartsWith(op.d["insert"].d["image"].s, HTTPS)

\* an image op whose URL is a string that is an http(s) URL
HttpImage(op) ==
    /\ InsertHasKey(op, "image")
    /\ op.d["insert"].d["image"].t = "str"
    /\ \/ StartsWith(op.d["insert"].d["image"].s, HTTP)
       \/ StartsWith(op.d["insert"].d["image"].s, HTTPS)

\* C1: a call runs validate, the first persist, the rehost pass and the
\* second persist in this order; no effect of the rehost pass exists before
\* the first persist is done; and a finished call has persisted a second
\* time exactly when the pass changed an op of its document.
C1_StepOrder ==
    \A w \in Workers :
      LET c == call[w] IN
      /\ IsPrefix(c.log, STEPS)
      /\ Len(c.log) < 2 /\ c.creating => db = NoPost
      /\ Len(c.log) \in {1, 2} =>
            /\ c.out = <<>>
            /\ c.content = c.submitted
            /\ Len(files) = c.file_base
      /\ c.pc = "saved" => db = c.content
      /\ c.pc = "done" =>
            Len(c.log) = IF c.content # c.submitted THEN 4 ELSE 3

\* a call that went through all four steps
C1_Witness ==
    \E w \in Workers : call[w].pc = "done" /\ call[w].log = STEPS

\* C2: a request whose document fails validation is answered with status
\* 400 after the validation step alone, and neither the step that rejects it
\* nor any later step of that call changes the post, the PostFiles or the
\* post's attachments; a document with a video never reaches the database.
C2_RejectedSteps ==
    \A w \in Workers :
      (call[w].pc = "error" \/ call'[w].pc = "error") =>
         (db' = db /\ files' = files /\ links' = links)

C2_Rejected ==
    \A w \in Workers :
      /\ call[w].pc = "error" =>
            /\ call[w].log = <<"validate">>
            /\ call[w].status = 400
            /\ call[w].out = <<>>
            /\ Len(files) = call[w].file_base
      /\ \A i \in 1..Len(Ops(db)) : ~InsertHasKey(Ops(db)[i], "video")
      /\ call[w].pc \notin {"idle", "error"} =>
            \A i \in 1..Len(Ops(call[w].submitted)) :
               ~InsertHasKey(Ops(call[w].submitted)[i], "video")

C2_InvalidChangesNothing == [][C2_RejectedSteps]_vars /\ []C2_Rejected

\* an update of an existing post was rejected
C2_Witness ==
    \E w \in Workers :
      call[w].pc = "error" /\ ~call[w].creating /\ db # NoPost /\ files # <<>>

\* C3: when a call is done, every op it rehosted holds, in the persisted
\* document and in the response, the URL of a PostFile that the call created,
\* whose file is saved and which is in the post's content_files; that URL is
\* not the URL that was submitted.
C3_RehostedUrl ==
    \A w \in Workers :
      LET c == call[w] IN
      c.pc = "done" =>
        \A i \in 1..Len(c.out) :
          c.out[i].r = "rehosted" =>
            LET k == c.out[i].file IN
            /\ HttpImage(Ops(c.submitted)[i])
            /\ c.status \in {200, 201}
            /\ ImageAt(db, i) = UrlOf(k)
            /\ ImageAt(c.body, i) = UrlOf(k)
            /\ UrlOf(k) # ImageAt(c.submitted, i)
            /\ k > c.file_base /\ k <= Len(files)
            /\ files[k].stored
            /\ k \in links

\* an update is done that rehosted an http:// image and an https:// image
C3_Witness ==
    \E w \in Workers :
      /\ call[w].pc = "done" /\ ~call[w].creating
      /\ Len(call[w].out) = 2
      /\ call[w].out[1].r = "rehosted" /\ call[w].out[2].r = "rehosted"
      /\ ImageAt(call[w].submitted, 1) = JStr(REMOTE_HTTP)
      /\ ImageAt(call[w].submitted, 2) = JStr(REMOTE_HTTPS)

\* C4: no failure of the rehost pass ends a call in an error: a call in
\* error has not entered the pass; and a call that is done after a download
\* or a storage write failed on an op has succeeded, with that op, in the
\* persisted document and in the response, as it was submitted.
C4_FailureSwallowed ==
    \A w \in Workers :
      LET c == call[w] IN
      /\ c.pc = "error" => c.out = <<>> /\ Len(c.log) = 1
      /\ c.pc = "done" =>
           \A i \in 1..Len(c.out) :
             c.out[i].r \in {"download_failed", "storage_failed"} =>
               /\ Succeeded(w)
               /\ Ops(db)[i] = Ops(c.submitted)[i]
               /\ Ops(c.body)[i] = Ops(c.submitted)[i]

\* a call is done in which a download failed and a storage write failed
C4_Witness ==
    \E w \in Workers :
      /\ Succeeded(w)
      /\ \E i, j \in 1..Len(call[w].out) :
            /\ call[w].out[i].r = "download_failed"
            /\ call[w].out[j].r = "storage_failed"

\* C5 (as claimed): after a pass, an op is rewritten exactly when it
\* qualifies and its download succeeded, whatever happened to earlier ops,
\* and the pass returns true exactly when an op was rewritten.
C5_AsClaimed ==
    \A w \in Workers :
      LET c == call[w] IN
      (PassOver(w) /\ c.provided) =>
        /\ Len(c.out) = Len(Ops(c.submitted))
        /\ \A i \in 1..Len(c.out) :
             (Ops(c.content)[i] # Ops(c.submitted)[i])
               = (HttpImage(Ops(c.submitted)[i]) /\ c.out[i].r # "download_failed")
        /\ c.is_modified = (\E i \in 1..Len(c.out) :
                               Ops(c.content)[i] # Ops(c.submitted)[i])

\* C5 (amended): after a pass every op has been visited; an op is rewritten,
\* with the URL of its own new PostFile, exactly when it qualifies and both
\* its download and the storage write succeeded, whatever happened to
\* earlier ops; every other op is as submitted; and the pass returns true
\* exactly when an op was rewritten.
C5_PerOpOutcome ==
    \A w \in Workers :
      LET c == call[w] IN
      (PassOver(w) /\ c.provided) =>
        /\ Len(c.out) = Len(Ops(c.submitted))
        /\ \A i \in 1..Len(c.out) :
             /\ HttpImage(Ops(c.submitted)[i]) = (c.out[i].r # "skipped")
             /\ IF c.out[i].r = "rehosted"
                  THEN /\ Ops(c.content)[i] # Ops(c.submitted)[i]
                       /\ Ops(c.content)[i] =
                            SetImage(Ops(c.submitted)[i], FileUrl(media_url, c.out[i].file))
                  ELSE Ops(c.content)[i] = Ops(c.submitted)[i]
        /\ c.is_modified = (\E i \in 1..Len(c.out) : c.out[i].r = "rehosted")

\* the first download failed, the second op was rehosted, the pass returned true
C5_Witness ==
    \E w \in Workers :
      /\ PassOver(w) /\ call[w].is_modified
      /\ Len(call[w].out) = 2
      /\ call[w].out[1].r = "download_failed"
      /\ call[w].out[2].r = "rehosted"
      /\ ImageAt(call[w].content, 1) = ImageAt(call[w].submitted, 1)
      /\ ImageAt(call[w].content, 2) # ImageAt(call[w].submitted, 2)

\* C6: an image op whose URL does not begin with http:// or https:// is
\* skipped by the pass: no PostFile is made for it, the call succeeds, and
\* the op is persisted and returned as submitted; a pass over such ops only
\* returns false and makes no PostFile.
C6_NonHttpUntouched ==
    \A w \in Workers :
      LET c == call[w] IN
      (c.pc = "done" /\ c.provided) =>
        /\ \A i \in 1..Len(Ops(c.submitted)) :
             NonHttpImage(Ops(c.submitted)[i]) =>
               /\ Succeeded(w)
               /\ c.out[i] = [r |-> "skipped", file |-> 0]
               /\ Ops(db)[i] = Ops(c.submitted)[i]
               /\ Ops(c.body)[i] = Ops(c.submitted)[i]
        /\ (\A i \in 1..Len(Ops(c.submitted)) : NonHttpImage(Ops(c.submitted)[i])) =>
               /\ ~c.is_modified
               /\ Len(files) = c.file_base
               /\ Len(c.log) = 3

\* a post was created from a document whose only op is the image 'invalid-url'
C6_Witness ==
    \E w \in Workers :
      /\ call[w].pc = "done" /\ call[w].creating /\ call[w].status = 201
      /\ Ops(call[w].submitted) = <<ImageOp(INVALID_URL)>>
      /\ Ops(db) = <<ImageOp(INVALID_URL)>>

\* the document of the call has an image op, and each of its image ops holds
\* the URL of a PostFile that was stored before the call
AlreadyRehosted(c) ==
    /\ c.provided
    /\ \E i \in 1..Len(Ops(c.submitted)) : InsertHasKey(Ops(c.submitted)[i], "image")
    /\ \A i \in 1..Len(Ops(c.submitted)) :
         InsertHasKey(Ops(c.submitted)[i], "image") =>
            \E k \in 1..c.file_base :
               files[k].stored /\ ImageAt(c.submitted, i) = UrlOf(k)

\* the pass of the call downloaded nothing, changed nothing and returned false
PassDidNothing(c) ==
    /\ c.content = c.submitted
    /\ \A i \in 1..Len(c.out) : c.out[i].r = "skipped"
    /\ Len(files) = c.file_base
    /\ ~c.is_modified
    /\ Len(c.log) = 3

\* C7 (as claimed): a pass over already rehosted content does nothing.
C7_AsClaimed ==
    \A w \in Workers :
      (call[w].pc = "done" /\ AlreadyRehosted(call[w])) => PassDidNothing(call[w])

\* C7 (amended): when the URLs of the storage do not begin with http:// or
\* https://, a pass over already rehosted content does nothing.
C7_IdempotentOnRelativeUrls ==
    \A w \in Workers :
      (/\ call[w].pc = "done"
       /\ AlreadyRehosted(call[w])
       /\ ~StartsWith(media_url, HTTP)
       /\ ~StartsWith(media_url, HTTPS)) => PassDidNothing(call[w])

\* an update resubmitted two rehosted images of a storage with relative URLs
C7_Witness ==
    \E w \in Workers :
      /\ call[w].pc = "done" /\ AlreadyRehosted(call[w])
      /\ media_url = MEDIA_RELATIVE
      /\ Len(call[w].out) = 2
      /\ InsertHasKey(Ops(call[w].submitted)[1], "image")
      /\ InsertHasKey(Ops(call[w].submitted)[2], "image")

\* C8: a step makes a PostFile only if it is the step of a rehost pass on
\* an image op with an http(s) URL whose download succeeded, and it makes one.
C8_CreationStep ==
    Len(files') > Len(files) =>
      /\ Len(files') = Len(files) + 1
      /\ \E w \in Workers :
           LET c == call[w]
               l == DeltaOf(c.provided, c.content)
           IN /\ c.pc = "rehost" /\ c.i <= Len(l)
              /\ HttpImage(l[c.i])
              /\ Len(call'[w].out) = c.i
              /\ call'[w].out[c.i].r \in {"storage_failed", "rehosted"}
              /\ call'[w].out[c.i].file = Len(files')

C8_OnlyDownloadedImages == [][C8_CreationStep]_vars

\* a pass skipped a text op, failed to download an image and made no PostFile
C8_Witness ==
    \E w \in Workers :
      /\ PassOver(w) /\ Len(call[w].out) = 2
      /\ call[w].out[1].r = "skipped" /\ call[w].out[2].r = "download_failed"
      /\ Ops(call[w].submitted)[1] = TextOp
      /\ files = <<>>

\* C9: no step removes a PostFile from the post's content_files, deletes a
\* PostFile or removes its file.
C9_AdditiveStep ==
    /\ links \subseteq links'
    /\ Len(files') >= Len(files)
    /\ \A k \in 1..Len(files) : files[k].stored => files'[k].stored

C9_AttachmentsAdditive == [][C9_AdditiveStep]_vars

\* an update whose document has no image is done, and the post keeps the
\* attachment of an image that the document no longer has
C9_Witness ==
    \E w \in Workers :
      /\ call[w].pc = "done" /\ ~call[w].creating /\ call[w].provided
      /\ \A i \in 1..Len(Ops(db)) : ~InsertHasKey(Ops(db)[i], "image")
      /\ \E k \in links : files[k].stored

\* C10: an op whose insert is a mapping with the key video makes the
\* validation fail, with an error detail that has the key delta and, at the
\* position of the op, the key insert.
C10_VideoRejected ==
    ValidationDone =>
      \A i \in 1..Len(RawItems) :
        InsertHasKey(RawItems[i], "video") =>
          /\ ~vres.ok
          /\ "delta" \in vres.errors.keys
          /\ Len(vres.errors.delta) = Len(RawItems)
          /\ "insert" \in vres.errors.delta[i]

\* a document was rejected whose second op maps video and image
C10_Witness ==
    /\ ValidationDone /\ ~vres.ok
    /\ Len(RawItems) = 2
    /\ RawItems[1] = TextOp
    /\ InsertHasKey(RawItems[2], "video") /\ InsertHasKey(RawItems[2], "image")
    /\ vres.errors.delta = <<{}, {"insert"}>>

(***************************************************************************)
(* Properties of the validator.                                            *)
(***************************************************************************)
\* the raw document has a delta that is not a list
DeltaNotSequence ==
    vraw.t = "dict" /\ "delta" \in DOMAIN vraw.d /\ vraw.d["delta"].t # "list"

\* the op has no insert
OpLacksInsert(op) == op.t # "dict" \/ "insert" \notin DOMAIN op.d

\* the op has an insert that is neither a string nor a mapping
InsertIllTyped(op) ==
    op.t = "dict" /\ "insert" \in DOMAIN op.d
    /\ op.d["insert"].t \notin {"str", "dict"}

\* C11: a raw document whose delta is not a sequence, or that has an op
\* without insert, or an op whose insert is neither string nor mapping, is
\* rejected with an error under the key delta, whatever its other ops are.
C11_MalformedRejected ==
    ValidationDone =>
      ((\/ DeltaNotSequence
        \/ \E i \in 1..Len(RawItems) :
              OpLacksInsert(RawItems[i]) \/ InsertIllTyped(RawItems[i]))
       => ~vres.ok /\ "delta" \in vres.errors.keys)

\* the same, for a serializer that is not partial
C11_MalformedRejectedWhenFull ==
    (ValidationDone /\ ~vpartial) =>
      ((\/ DeltaNotSequence
        \/ \E i \in 1..Len(RawItems) :
              OpLacksInsert(RawItems[i]) \/ InsertIllTyped(RawItems[i]))
       => ~vres.ok /\ "delta" \in vres.errors.keys)

\* the op carries a top-level key other than insert and attributes
HasUnknownKey(op) ==
    op.t = "dict" /\ DOMAIN op.d \ {"insert", "attributes"} # {}

\* C12: an op that carries a top-level key other than insert and attributes
\* makes the validation fail, with an error at the position of the op, also
\* when the op has a valid insert (stated for a serializer that is not
\* partial, where an absent insert is an error too).
C12_UnknownKeyRejected ==
    (ValidationDone /\ ~vpartial) =>
      \A i \in 1..Len(RawItems) :
        HasUnknownKey(RawItems[i]) =>
          /\ ~vres.ok
          /\ "delta" \in vres.errors.keys
          /\ vres.errors.delta[i] # {}

\* the op satisfies the boundary schema: an insert that is a string or a
\* mapping of image to a string, and optionally attributes that are a mapping
OpConforms(op) ==
    /\ op.t = "dict"
    /\ "insert" \in DOMAIN op.d
    /\ DOMAIN op.d \subseteq {"insert", "attributes"}
    /\ \/ op.d["insert"].t = "str"
       \/ /\ op.d["insert"].t = "dict"
          /\ DOMAIN op.d["insert"].d = {"image"}
          /\ op.d["insert"].d["image"].t = "str"
    /\ "attributes" \in DOMAIN op.d => op.d["attributes"].t = "dict"

\* the raw document satisfies the boundary schema
DocConforms ==
    /\ vraw.t = "dict"
    /\ DOMAIN vraw.d \subseteq {"schema_version", "delta"}
    /\ "schema_version" \in DOMAIN vraw.d =>
          vraw.d["schema_version"].t = "int" /\ vraw.d["schema_version"].n >= 0
    /\ "delta" \in DOMAIN vraw.d => vraw.d["delta"].t = "list"
    /\ \A i \in 1..Len(RawItems) : OpConforms(RawItems[i])

\* C13: a raw document that satisfies the boundary schema is accepted, and
\* the ops of the validated document are the ops of the raw document: as
\* many, in the same order, each with the same insert and the same
\* attributes.
C13_RoundTrip ==
    (ValidationDone /\ DocConforms) =>
      /\ vres.ok
      /\ Ops(vres.doc) = RawItems

\* a text with an attribute the renderer does not know, then an image, were
\* validated
C13_Witness ==
    /\ ValidationDone /\ DocConforms /\ vres.ok
    /\ Len(RawItems) = 2
    /\ RawItems[1] = JDict("insert" :> JStr(HELLO) @@ "attributes" :> JDict("color" :> X))
    /\ RawItems[2] = ImageOp(REMOTE_HTTP)
    /\ Ops(vres.doc) = RawItems

\* an insert as the data model describes it: a string, or a mapping of image,
\* and of nothing else, to a string
InsertAsDescribed(v) ==
    \/ v.t = "str"
    \/ v.t = "dict" /\ DOMAIN v.d = {"image"} /\ v.d["image"].t = "str"

\* an insert as validate_insert leaves it: a string, or a mapping without
\* the key video
InsertAsChecked(v) ==
    \/ v.t = "str"
    \/ v.t = "dict" /\ "video" \notin DOMAIN v.d

\* C14 as claimed: every op of an accepted document has an insert that is a
\* string or a mapping of exactly the key image to a string (stated for a
\* serializer that is not partial).
C14_AsClaimed ==
    (ValidationDone /\ ~vpartial /\ vres.ok) =>
      \A i \in 1..Len(Ops(vres.doc)) :
        /\ "insert" \in DOMAIN Ops(vres.doc)[i].d
        /\ InsertAsDescribed(Ops(vres.doc)[i].d["insert"])

\* C14 as amended: every insert of an accepted document is a string or a
\* mapping without the key video, and the shape of a mapping is not checked
\* any further: a raw document that has a valid schema_version, a list as
\* delta and ops that each have such an insert (and attributes that are a
\* mapping, when present) is accepted.
C14_InsertShape ==
    /\ (ValidationDone /\ vres.ok) =>
         \A i \in 1..Len(Ops(vres.doc)) :
           "insert" \in DOMAIN Ops(vres.doc)[i].d =>
              InsertAsChecked(Ops(vres.doc)[i].d["insert"])
    /\ (/\ ValidationDone
        /\ vraw.t = "dict"
        /\ "schema_version" \in DOMAIN vraw.d =>
              IntegerField_accepts(vraw.d["schema_version"])
        /\ ~DeltaNotSequence
        /\ \A i \in 1..Len(RawItems) :
              /\ RawItems[i].t = "dict"
              /\ "insert" \in DOMAIN RawItems[i].d
              /\ InsertAsChecked(RawItems[i].d["insert"])
              /\ "attributes" \in DOMAIN RawItems[i].d =>
                    RawItems[i].d["attributes"].t = "dict")
       => vres.ok

\* a document was accepted whose inserts are an empty mapping and a mapping
\* of image to a number
C14_Witness ==
    /\ ValidationDone /\ vres.ok
    /\ Len(RawItems) = 2
    /\ RawItems[1] = JDict("insert" :> JDict(EmptyMap))
    /\ RawItems[2] = JDict("insert" :> JDict("image" :> JInt(5)))
    /\ Ops(vres.doc) = RawItems

\* the raw document has the key schema_version
VersionGiven == vraw.t = "dict" /\ "schema_version" \in DOMAIN vraw.d

AttributesOf(op) ==
    IF "attributes" \in DOMAIN op.d THEN op.d["attributes"] ELSE JDict(EmptyMap)

\* the attribute k of the op is truthy
Has(op, k) == Truthy(DictGet(AttributesOf(op), k))

\* a text op: a non-empty string with attributes that are a mapping whose
\* link, when truthy, is a string
IsTextOp(op) ==
    /\ op.t = "dict"
    /\ DictGet(op, "insert").t = "str" /\ DictGet(op, "insert").s # <<>>
    /\ AttributesOf(op).t = "dict"
    /\ Has(op, "link") => DictGet(AttributesOf(op), "link").t = "str"

\* the opening tags of a text op, outermost first, and its closing tags,
\* innermost first
OpeningTags(op) ==
    (IF Has(op, "link")
       THEN A_OPEN_1 \o Escape(DictGet(AttributesOf(op), "link").s) \o A_OPEN_2
       ELSE <<>>)
    \o (IF Has(op, "strike") THEN S_OPEN ELSE <<>>)
    \o (IF Has(op, "underline") THEN U_OPEN ELSE <<>>)
    \o (IF Has(op, "italic") THEN EM_OPEN ELSE <<>>)
    \o (IF Has(op, "bold") THEN STRONG_OPEN ELSE <<>>)
ClosingTags(op) ==
    (IF Has(op, "bold") THEN STRONG_CLOSE ELSE <<>>)
    \o (IF Has(op, "italic") THEN EM_CLOSE ELSE <<>>)
    \o (IF Has(op, "underline") THEN U_CLOSE ELSE <<>>)
    \o (IF Has(op, "strike") THEN S_CLOSE ELSE <<>>)
    \o (IF Has(op, "link") THEN A_CLOSE ELSE <<>>)

BoldItalicX ==
    JDict("insert" :> X
          @@ "attributes" :> JDict("bold" :> JBool(TRUE) @@ "italic" :> JBool(TRUE)))
EM_STRONG_X == <<"<", "e", "m", ">", "<", "s", "t", "r", "o", "n", "g", ">", "x", "<", "/", "s", "t", "r", "o", "n", "g", ">", "<", "/", "e", "m", ">">>

\* C16: the rendering of text ops is, op after op, the opening tags of the
\* truthy attributes from the link anchor (outermost) over s, u and em to
\* strong (innermost), the escaped text, and the closing tags in the reverse
\* order; bold and italic together give <em><strong>x</strong></em>.
C16_NestingOrder ==
    /\ (Rendered /\ \A i \in 1..Len(rops) : IsTextOp(rops[i])) =>
         /\ rhtml.ok
         /\ rhtml.html =
              Join([i \in 1..Len(rops) |->
                      OpeningTags(rops[i]) \o Escape(rops[i].d["insert"].s)
                      \o ClosingTags(rops[i])])
    /\ (Rendered /\ rops = <<BoldItalicX>>) => rhtml.html = EM_STRONG_X

\* the text x with all five attributes was rendered, then bold italic x
C16_Witness ==
    /\ Rendered /\ rhtml.ok
    /\ Len(rops) = 2
    /\ \A k \in FLAGS \cup {"link"} : Has(rops[1], k)
    /\ IsTextOp(rops[1])
    /\ rops[2] = BoldItalicX
    /\ SubSeq(rhtml.html, Len(rhtml.html) - Len(EM_STRONG_X) + 1, Len(rhtml.html))
         = EM_STRONG_X

\* how often the character c occurs in s
Count(s, c) == Cardinality({i \in 1..Len(s) : s[i] = c})

\* the op is rendered as text, or as an image
RendersText(op) ==
    op.t = "dict" /\ DictGet(op, "insert").t = "str" /\ DictGet(op, "insert").s # <<>>
RendersImage(op) ==
    op.t = "dict" /\ DictGet(op, "insert").t = "dict"
    /\ "image" \in DOMAIN DictGet(op, "insert").d

\* the tags the renderer emits for an op, and the double quotes in them
TagsOf(op) ==
    IF RendersText(op)
      THEN 2 * Cardinality({k \in FLAGS \cup {"link"} : Has(op, k)})
    ELSE IF RendersImage(op) THEN 1 ELSE 0
QuotesOf(op) ==
    IF RendersText(op) THEN (IF Has(op, "link") THEN 6 ELSE 0)
    ELSE IF RendersImage(op) THEN 4 ELSE 0

RECURSIVE TagsIn(_)
TagsIn(ops) == IF ops = <<>> THEN 0 ELSE TagsOf(Head(ops)) + TagsIn(Tail(ops))
RECURSIVE QuotesIn(_)
QuotesIn(ops) == IF ops = <<>> THEN 0 ELSE QuotesOf(Head(ops)) + QuotesIn(Tail(ops))

\* one of the five entities of html.escape starts at position i of s
EntityAt(s, i) ==
    \E e \in {AMP, LT, GT, QUOT, APOS} :
        i + Len(e) - 1 <= Len(s) /\ SubSeq(s, i, i + Len(e) - 1) = e

ESCAPED_SCRIPT == <<"&", "l", "t", ";", "s", "c", "r", "i", "p", "t", "&", "g", "t", ";">>

\* C17: in the output, < and > occur only in the tags the renderer emits and
\* double quotes only around the attribute values of those tags, a single
\* quote never occurs, and every & starts an entity; the text <script> is
\* rendered as &lt;script&gt;.
C17_Escaped ==
    /\ (Rendered /\ rhtml.ok) =>
         /\ Count(rhtml.html, "<") = TagsIn(rops)
         /\ Count(rhtml.html, ">") = TagsIn(rops)
         /\ Count(rhtml.html, "\"") = QuotesIn(rops)
         /\ Count(rhtml.html, "'") = 0
         /\ \A i \in 1..Len(rhtml.html) :
              rhtml.html[i] = "&" => EntityAt(rhtml.html, i)
    /\ (Rendered /\ rops = <<JDict("insert" :> JStr(SCRIPT))>>) =>
         rhtml.html = ESCAPED_SCRIPT

\* a text of special characters under a link of special characters, then an
\* image whose URL has special characters, were rendered
C17_Witness ==
    /\ Rendered /\ rhtml.ok
    /\ Len(rops) = 2
    /\ DictGet(rops[1], "insert") = JStr(SPECIALS)
    /\ DictGet(AttributesOf(rops[1]), "link") = JStr(LINK_SPECIAL)
    /\ rops[2] = ImageOp(IMAGE_SPECIAL)
    /\ Count(rhtml.html, "<") = 5

\* an image op whose image is a string
IsImageOp(op) == RendersImage(op) /\ DictGet(op, "insert").d["image"].t = "str"

\* an op that has nothing to render: no insert, an empty one, a mapping
\* without the key image, or a value that is neither string nor mapping
IsSilentOp(op) ==
    /\ op.t = "dict"
    /\ \/ ~Truthy(DictGet(op, "insert"))
       \/ DictGet(op, "insert").t = "dict" /\ "image" \notin DOMAIN DictGet(op, "insert").d
       \/ DictGet(op, "insert").t \notin {"str", "dict"}

\* the fragment of one op
FragmentOf(op) ==
    IF IsTextOp(op)
      THEN OpeningTags(op) \o Escape(op.d["insert"].s) \o ClosingTags(op)
    ELSE IF IsImageOp(op)
      THEN IMG_1 \o Escape(op.d["insert"].d["image"].s) \o IMG_2
    ELSE <<>>

\* C18: the output is the fragments of the ops, in the order of the ops and
\* with nothing between them; an op without insert, with an empty insert or
\* with a mapping that has no image contributes nothing and does not make
\* the call raise; [{insert: ""}] and [] are rendered as "".
C18_Concatenation ==
    /\ (Rendered /\ \A i \in 1..Len(rops) :
            IsTextOp(rops[i]) \/ IsImageOp(rops[i]) \/ IsSilentOp(rops[i])) =>
         /\ rhtml.ok
         /\ rhtml.html = Join([i \in 1..Len(rops) |-> FragmentOf(rops[i])])
    /\ (Rendered /\ rops \in {<<>>, <<JDict("insert" :> JStr(<<>>))>>}) =>
         rhtml = [ok |-> TRUE, html |-> <<>>]

\* a mapping of audio, then bold italic x, were rendered as the fragment of
\* the second
C18_Witness ==
    /\ Rendered
    /\ rops = <<JDict("insert" :> JDict("audio" :> X)), BoldItalicX>>
    /\ rhtml = [ok |-> TRUE, html |-> EM_STRONG_X]

(***************************************************************************)
(* Properties of the read path and of the return value of the rehoster.    *)
(***************************************************************************)
\* no op of the document is an image with an http(s) URL
NoRemoteImage(doc) == \A i \in 1..Len(Ops(doc)) : ~Qualifies(Ops(doc)[i])

\* C19: the persisted document of a post has exactly the keys schema_version
\* and delta, so never the key html, whatever the request carried; and once
\* a create or update of a document without remote image is over, the
\* persisted document is the document the request submitted.
C19_HtmlNeverPersisted ==
    /\ db # NoPost => DOMAIN db.d = {"schema_version", "delta"}
    /\ \A w \in Workers :
         (call[w].pc = "done" /\ NoRemoteImage(call[w].submitted)) =>
            db = call[w].submitted

\* the part of C19 that the code keeps: the persisted document has no key
\* other than schema_version and delta, and a response that is not an error
\* has the key html
C19_NoOtherKeyStored ==
    /\ db # NoPost => DOMAIN db.d \subseteq {"schema_version", "delta"}
    /\ \A w \in Workers :
         (call[w].pc = "done" /\ NoRemoteImage(call[w].submitted)) =>
            db = call[w].submitted
    /\ \A w \in Workers :
         Succeeded(w) => "html" \in DOMAIN call[w].body.d

\* the positions of the ops that the pass of worker w has rewritten
Rewritten(w) ==
    {i \in 1..Len(Ops(call[w].content)) :
        Ops(call[w].content)[i] # Ops(call[w].submitted)[i]}

\* C20: when _process_files returns, its result is true exactly when the
\* pass has rewritten an op; it is false when no op qualifies, when no
\* qualifying op was both downloaded and stored, and when the serializer has
\* no file_field_name or there is no instance, in which case no op was
\* visited, no op was changed and no PostFile was created.
C20_ReturnValue ==
    RehostOver("w1") =>
      LET c == call["w1"] IN
        /\ c.is_modified <=> Rewritten("w1") # {}
        /\ NoRemoteImage(c.submitted) => ~c.is_modified
        /\ (\A k \in 1..Len(c.out) : c.out[k].r # "rehosted") => ~c.is_modified
        /\ (c.field_name = NO_FIELD_NAME \/ ~c.owner) =>
              /\ ~c.is_modified
              /\ c.out = <<>>
              /\ c.content = c.submitted
              /\ files = <<>> /\ links = {}

\* the call returned false on two remote images without visiting them, for
\* want of a file_field_name
C20_Witness ==
    /\ RehostOver("w1")
    /\ call["w1"].field_name = NO_FIELD_NAME /\ call["w1"].owner
    /\ Len(Ops(call["w1"].submitted)) = 2
    /\ \A i \in 1..2 : Qualifies(Ops(call["w1"].submitted)[i])
    /\ ~call["w1"].is_modified
    /\ call["w1"].out = <<>>

(***************************************************************************)
(* Properties of two interleaved updates, and of the pass as a whole.      *)
(***************************************************************************)
\* both updates were valid, have persisted and have been answered
BothOver == \A w \in Workers : call[w].pc = "done"

\* C21: once two interleaved updates of a post are both over, the persisted
\* document is the document of one of the two calls as its rehost pass left
\* it, whole: its ops are never taken from both calls.
C21_LastWriteWins ==
    BothOver => \E w \in Workers : db = call[w].content

\* two updates that arrived before any file was created have both rewritten
\* an image, into different documents, and the first worker's document is
\* the persisted one although its file was created first
C21_Witness ==
    /\ BothOver
    /\ \A w \in Workers : call[w].file_base = 0 /\ Rewritten(w) # {}
    /\ call["w1"].content # call["w2"].content
    /\ call["w1"].out[1] = [r |-> "rehosted", file |-> 1]
    /\ db = call["w1"].content

\* the op after the pass differs from the op before it in nothing but the
\* value of insert.image
SameButImage(before, after) ==
    /\ DOMAIN after.d = DOMAIN before.d
    /\ \A k \in DOMAIN before.d \ {"insert"} : after.d[k] = before.d[k]
    /\ IF before.d["insert"].t = "dict"
         THEN /\ after.d["insert"].t = "dict"
              /\ DOMAIN after.d["insert"].d = DOMAIN before.d["insert"].d
              /\ \A k \in DOMAIN before.d["insert"].d \ {"image"} :
                    after.d["insert"].d[k] = before.d["insert"].d[k]
         ELSE after.d["insert"] = before.d["insert"]

\* C22: during and after a pass the document has the ops it had before, as
\* many and in the same order, each the same but for the insert.image of the
\* ops the pass has rehosted, and the same schema_version; the ops are
\* visited one by one in the order of the document, each once.
C22_RehostFrame ==
    call["w1"].pc = "rehost" =>
      LET c == call["w1"]
          before == Ops(c.submitted)
          after == Ops(c.content)
      IN /\ Len(after) = Len(before)
         /\ DOMAIN c.content.d = DOMAIN c.submitted.d
         /\ \A k \in DOMAIN c.submitted.d \ {"delta"} :
              c.content.d[k] = c.submitted.d[k]
         /\ \A k \in 1..Len(before) :
              /\ SameButImage(before[k], after[k])
              /\ after[k] # before[k] =>
                    k <= Len(c.out) /\ c.out[k].r = "rehosted"
         /\ (c.field_name # NO_FIELD_NAME /\ c.owner) =>
              /\ Len(c.out) = c.i - 1
              /\ c.i <= Len(before) + 1
              /\ \A k \in 1..Len(c.out) :
                   /\ c.out[k].r = "skipped" <=> ~Qualifies(before[k])
                   /\ c.out[k].r = "rehosted" =>
                        after[k].d["insert"].d["image"] = UrlOf(c.out[k].file)

\* a pass is over that has rehosted a captioned image with attributes and
\* has passed over a bold text
C22_Witness ==
    /\ RehostOver("w1")
    /\ Ops(call["w1"].submitted) = <<CaptionedImageOp, BoldTextOp>>
    /\ Rewritten("w1") = {1}
    /\ Ops(call["w1"].content)[1].d["insert"].d["alt"] = X
    /\ Ops(call["w1"].content)[2] = BoldTextOp

\* the PostFile records the call of worker w has created
CreatedBy(w) == (call[w].file_base + 1)..Len(files)

\* C23: when the pass of a call is over, every PostFile record the pass has
\* created has its file stored, is one of the post's content_files, and has
\* its URL in the op that it was created for; a failed write to the storage
\* leaves no record.
C23_AttachmentsComplete ==
    PassOver("w1") =>
      \A k \in CreatedBy("w1") :
        /\ files[k].stored
        /\ k \in links
        /\ \E i \in 1..Len(call["w1"].out) :
              /\ call["w1"].out[i] = [r |-> "rehosted", file |-> k]
              /\ ImageAt(call["w1"].content, i) = UrlOf(k)

\* the part of C23 that the code keeps: a record whose file was stored is
\* linked and has its URL in its op
C23_StoredAttachmentsComplete ==
    PassOver("w1") =>
      \A k \in CreatedBy("w1") :
        files[k].stored =>
          /\ k \in links
          /\ \E i \in 1..Len(call["w1"].out) :
                /\ call["w1"].out[i] = [r |-> "rehosted", file |-> k]
                /\ ImageAt(call["w1"].content, i) = UrlOf(k)

\* the validation of a whole document (not of a PATCH) has accepted it
AcceptedInFull == vres # NotRun /\ ~vpartial /\ vres.ok

\* C24: render_delta_to_html returns a string for the ops of every document
\* that validation accepts, so a stored post can always be read back.
C24_AcceptedRenders ==
    AcceptedInFull => render_delta_to_html(Ops(vres.doc)).ok

\* the part of C24 that the code keeps: the renderer returns a string when
\* every image of the accepted ops and every truthy link is a string
C24_StringValuedRenders ==
    AcceptedInFull =>
      LET ops == Ops(vres.doc)
          stringValued(op) ==
            LET insert == op.d["insert"]
                link == DictGet(AttributesOf(op), "link")
            IN /\ (insert.t = "dict" /\ "image" \in DOMAIN insert.d)
                    => insert.d["image"].t = "str"
               /\ (insert.t = "str" /\ Truthy(link)) => link.t = "str"
      IN (\A i \in 1..Len(ops) : stringValued(ops[i]))
            => render_delta_to_html(ops).ok

====
